---- MODULE Spec2Model ----
(***************************************************************************)
(* State-machine model of src/inference.py: the gradio demo handlers       *)
(* (get_reconstructed_scene, the option-change export callbacks,           *)
(* set_scenegraph_options), the command-line block, the export function    *)
(* get_3D_model_from_scene and the persistence helpers.                    *)
(*                                                                         *)
(* Python values are tagged records, because the handlers pass values      *)
(* positionally and a parameter may receive a value of any type.           *)
(***************************************************************************)
EXTENDS Integers, Sequences, FiniteSets, TLC

\* ------------------------------------------------------------------ bounds
\* Largest number of image files a run is given.
MaxViews == 3
\* Pixels per image.
NumPix == 2
\* Largest confidence threshold a caller passes (the slider starts at 1).
MaxThr == 3
\* Largest window size / reference index a request carries.
MaxParam == 3

\* ------------------------------------------------------- python values
None == [tag |-> "None"]
Num(v) == [tag |-> "num", num |-> v]
Bool(b) == [tag |-> "bool", bool |-> b]
Obj(s) == [tag |-> "scene", obj |-> s]

\* Python truth value of `if x:`.
Truthy(x) ==
    CASE x.tag = "None" -> FALSE
      [] x.tag = "bool" -> x.bool
      [] x.tag = "num" -> x.num # 0
      [] OTHER -> TRUE

\* Numeric value of a python number (bool is a subtype of int).
Number(x) == IF x.tag = "bool" THEN (IF x.bool THEN 1 ELSE 0) ELSE x.num

Range(s) == {s[i] : i \in 1..Len(s)}

RECURSIVE SeqSum(_)
SeqSum(s) == IF s = <<>> THEN 0 ELSE Head(s) + SeqSum(Tail(s))

RECURSIVE SeqMax(_)
SeqMax(s) == IF Len(s) = 1 THEN s[1]
             ELSE LET m == SeqMax(Tail(s)) IN IF s[1] > m THEN s[1] ELSE m

\* ------------------------------------------- collaborators (library side)
\* What the pairwise model and the aligner produce for a pixel of an image
\* file: a fixed function of the image content.
ConfOf(f, p) == (f + p) % 3
DepthOf(f, p) == f + p
SkyOf(f, p) == (f + p) % 2 = 0
OutlierOf(f, p) == (p = 1) /\ (f % 2 = 1)

\* load_images: one view per path, indexed in order from 0.
load_images(filelist) ==
    [i \in 1..Len(filelist) |-> [idx |-> i - 1, file |-> filelist[i]]]

\* make_pairs: the pairs of a topology, each in both directions when
\* symmetrize is set.  scene_graph is <<"complete">>, <<"swin", w>> or
\* <<"oneref", r>> (the "swin-3" / "oneref-0" strings of the caller).
make_pairs(imgs, scene_graph, symmetrize) ==
    LET N == Len(imgs)
        type == scene_graph[1]
        valid == CASE type = "swin" ->
                        1 <= scene_graph[2] /\ scene_graph[2] <= (N - 1) \div 2
                   [] type = "oneref" ->
                        0 <= scene_graph[2] /\ scene_graph[2] < N
                   [] OTHER -> TRUE
        sel == CASE type = "swin" ->
                      {<<i, j>> \in (1..N) \X (1..N) :
                          i < j /\ j - i <= scene_graph[2]}
                 [] type = "oneref" ->
                      {<<i, j>> \in (1..N) \X (1..N) :
                          i = scene_graph[2] + 1 /\ j # i}
                 [] OTHER ->
                      {<<i, j>> \in (1..N) \X (1..N) : j < i}
        fwd == {<<imgs[e[1]], imgs[e[2]]>> : e \in sel}
        bwd == {<<imgs[e[2]], imgs[e[1]]>> : e \in sel}
    IN  IF valid
        THEN [raised |-> "none",
              pairs |-> IF symmetrize THEN fwd \cup bwd ELSE fwd]
        ELSE [raised |-> "InvalidTopologyParameter", pairs |-> {}]

\* inference: one pairwise result per pair.
inference(pairs) == [pairs |-> pairs]

\* The confidence transform of a scene (logarithmic).
RECURSIVE conf_trf(_)
conf_trf(t) == IF t <= 1 THEN 0 ELSE 1 + conf_trf(t \div 2)

\* global_aligner: the scene built from the pairwise results, one view per
\* image index met in the pairs.
global_aligner(output, mode) ==
    LET views == {e[1] : e \in output.pairs} \cup {e[2] : e \in output.pairs}
        ids == {v.idx : v \in views}
        n == Cardinality(ids)
        img == [k \in 1..n |-> CHOOSE v \in views : v.idx = k - 1]
    IN  [mode |-> mode,
         imgs |-> img,
         im_conf |-> [k \in 1..n |-> [p \in 1..NumPix |-> ConfOf(img[k].file, p)]],
         depth |-> [k \in 1..n |-> [p \in 1..NumPix |-> DepthOf(img[k].file, p)]],
         valid |-> [k \in 1..n |-> [p \in 1..NumPix |-> TRUE]],
         im_poses |-> [k \in 1..n |-> <<"pose", img[k].file>>],
         focals |-> [k \in 1..n |-> <<"focal", img[k].file>>],
         min_conf_thr |-> 3,
         alignRuns |-> 0,
         init |-> "none"]

\* scene.compute_global_alignment(init=..., ...): one optimizer run.
compute_global_alignment(scene, init) ==
    [scene EXCEPT !.alignRuns = @ + 1, !.init = init]

\* scene.clean_pointcloud(): a working copy without the depth outliers.
clean_pointcloud(scene) ==
    [scene EXCEPT !.valid =
        [k \in DOMAIN scene.imgs |-> [p \in 1..NumPix |->
            scene.valid[k][p] /\ ~OutlierOf(scene.imgs[k].file, p)]]]

\* scene.mask_sky(): a working copy without the sky pixels.
mask_sky(scene) ==
    [scene EXCEPT !.valid =
        [k \in DOMAIN scene.imgs |-> [p \in 1..NumPix |->
            scene.valid[k][p] /\ ~SkyOf(scene.imgs[k].file, p)]]]

\* scene.get_masks(): confidence >= threshold, minus the excluded pixels.
get_masks(scene) ==
    [k \in DOMAIN scene.imgs |-> [p \in 1..NumPix |->
        scene.valid[k][p] /\ scene.im_conf[k][p] >= scene.min_conf_thr]]

\* ------------------------------------------------- program constants
\* Default of get_3D_model_from_scene's min_conf_thr parameter.
DefaultMinConfThr == 3
\* Initial value of the min_conf_thr slider of the demo.
SliderMinConfThr == 3
\* Default of get_3D_model_from_scene's cam_size parameter, in thousandths.
DefaultCamSize == 50

\* ---------------------------------------------------------------- export
\* Number of pixels the masks keep, over all views.
MaskCount(msk) ==
    SeqSum([k \in DOMAIN msk |-> Cardinality({p \in DOMAIN msk[k] : msk[k][p]})])

\* _convert_scene_output_to_glb: build the geometry of the masked pixels and
\* write it as {scene_name}_{type}.glb under outdir.  The file is kept as its
\* kind and its frame (the first camera); npts is the number of points in it.
_convert_scene_output_to_glb(outdir, scene_name, imgs, pts3d, mask, focals, cams2world, cam_size, cam_color, as_pointcloud, transparent_cams) ==
    IF ~(Len(pts3d) = Len(mask) /\ Len(mask) <= Len(imgs)
         /\ Len(imgs) <= Len(cams2world) /\ Len(cams2world) = Len(focals))
    THEN [raised |-> "AssertionError", outfile |-> None, npts |-> 0,
          content |-> None]
    ELSE LET type == IF Truthy(as_pointcloud) THEN "pointcloud" ELSE "mesh"
         IN  [raised |-> "none",
              outfile |-> [tag |-> "path", path |-> <<outdir, scene_name, type>>],
              npts |-> MaskCount(mask),
              content |-> [tag |-> "glb", type |-> type, frame |-> cams2world[1]]]

\* A variant of threshold_and_mask that reads the masks before it stores
\* the new threshold.
mask_then_threshold(scene, min_conf_thr) ==
    [scene |-> [scene EXCEPT !.min_conf_thr = conf_trf(Number(min_conf_thr))],
     msk |-> get_masks(scene)]

\* A variant of threshold_and_mask that runs the optimizer again.
threshold_and_realign(scene, min_conf_thr) ==
    LET s2 == compute_global_alignment(
                  [scene EXCEPT !.min_conf_thr = conf_trf(Number(min_conf_thr))],
                  "mst")
    IN  [scene |-> s2, msk |-> get_masks(s2)]

\* Lines 144-145: store the transformed threshold on the working scene, then
\* read the masks.
threshold_and_mask(scene, min_conf_thr) ==
    LET s2 == [scene EXCEPT !.min_conf_thr = conf_trf(Number(min_conf_thr))]
    IN  [scene |-> s2, msk |-> get_masks(s2)]

\* get_3D_model_from_scene.  The result records what the call raised, what
\* it returned, the caller's object after the call (`caller`), the masks it
\* used, the collaborator calls it made and the file it wrote.
get_3D_model_from_scene(outdir, scene_name, scene, min_conf_thr, as_pointcloud, mask_sky_, clean_depth, transparent_cams, cam_size) ==
    LET quiet == [raised |-> "none", ret |-> None, caller |-> scene,
                  msk |-> <<>>, npts |-> 0, calls |-> <<>>, written |-> None]
    IN
    IF scene.tag = "None" THEN quiet
    ELSE IF scene.tag # "scene"
    THEN \* clean_pointcloud / mask_sky / imgs looked up on a non-scene value
         [quiet EXCEPT !.raised = "AttributeError"]
    ELSE
    LET s0 == scene.obj
        cd == Truthy(clean_depth)
        ms == Truthy(mask_sky_)
        s1 == IF cd THEN clean_pointcloud(s0) ELSE s0
        s2 == IF ms THEN mask_sky(s1) ELSE s1
        \* s2 is the caller's object itself only when no copy was taken
        same == ~cd /\ ~ms
        tm == threshold_and_mask(s2, min_conf_thr)
        glb == _convert_scene_output_to_glb(outdir, scene_name, tm.scene.imgs,
                   tm.scene.depth, tm.msk, tm.scene.focals, tm.scene.im_poses,
                   cam_size, None, as_pointcloud, transparent_cams)
    IN  [raised |-> glb.raised,
         ret |-> glb.outfile,
         caller |-> IF same THEN Obj(tm.scene) ELSE scene,
         msk |-> tm.msk,
         npts |-> glb.npts,
         calls |-> (IF cd THEN <<"clean_pointcloud">> ELSE <<>>)
                   \o (IF ms THEN <<"mask_sky">> ELSE <<>>)
                   \o <<"get_masks", "scene.export">>,
         written |-> IF glb.raised = "none"
                     THEN [tag |-> "file", path |-> glb.outfile.path,
                           content |-> glb.content]
                     ELSE None]

\* ------------------------------------------------------- reconstruction
\* A variant of resolve_views whose copy keeps the index of the original.
resolve_views_same_idx(imgs) ==
    IF Len(imgs) = 1 THEN <<imgs[1], imgs[1]>> ELSE imgs

\* Lines 183-185: a single view is duplicated, the copy getting index 1.
resolve_views(imgs) ==
    IF Len(imgs) = 1
    THEN <<imgs[1], [imgs[1] EXCEPT !.idx = 1]>>
    ELSE imgs

\* Lines 186-189: the scene-graph name handed to make_pairs.
scene_graph_name(scenegraph_type, winsize, refid) ==
    CASE scenegraph_type = "swin" -> <<"swin", winsize>>
      [] scenegraph_type = "oneref" -> <<"oneref", refid>>
      [] OTHER -> <<scenegraph_type>>

\* Lines 196-200: the alignment mode of the orchestrator.
select_mode(imgs) ==
    IF Len(imgs) > 2 THEN "PointCloudOptimizer" ELSE "PairViewer"

\* Lines 220-236: rgb, depth and confidence image of every view; depth and
\* confidence are divided by their maximum over all views.  A quotient is
\* kept as <<numerator, denominator>>.
diagnostic_images(scene) ==
    LET n == Len(scene.imgs)
        depths_max == SeqMax([k \in 1..n |-> SeqMax(scene.depth[k])])
        confs_max == SeqMax([k \in 1..n |-> SeqMax(scene.im_conf[k])])
        depths == [k \in 1..n |-> [p \in 1..NumPix |->
                      <<scene.depth[k][p], depths_max>>]]
        confs == [k \in 1..n |-> [p \in 1..NumPix |->
                      <<"jet", scene.im_conf[k][p], confs_max>>]]
    IN  [j \in 1..(3 * n) |->
            LET k == ((j - 1) \div 3) + 1
            IN  CASE (j - 1) % 3 = 0 -> [kind |-> "rgb", data |-> scene.imgs[k]]
                  [] (j - 1) % 3 = 1 -> [kind |-> "depth", data |-> depths[k]]
                  [] OTHER -> [kind |-> "conf", data |-> confs[k]]]

\* get_reconstructed_scene: load, pair, infer, align, export, render.
get_reconstructed_scene(outdir, model, device, image_size, filelist, schedule, niter, min_conf_thr, as_pointcloud, mask_sky_, clean_depth, transparent_cams, cam_size, scenegraph_type, winsize, refid) ==
    LET imgs == resolve_views(load_images(filelist))
        graph == scene_graph_name(scenegraph_type, winsize, refid)
        mp == make_pairs(imgs, graph, TRUE)
        base == [raised |-> mp.raised, ret |-> None, n |-> Len(filelist),
                 imgs |-> imgs, graph |-> graph, pairs |-> mp.pairs,
                 mode |-> "none", init |-> "none",
                 written |-> None,
                 calls |-> <<"load_images", "make_pairs">>]
    IN
    IF mp.raised # "none" THEN base
    ELSE
    LET output == inference(mp.pairs)
        mode == select_mode(imgs)
        sc0 == global_aligner(output, mode)
        sc1 == IF mode = "PointCloudOptimizer"
               THEN compute_global_alignment(sc0, "mst")
               ELSE sc0
        \* the eight values are passed by position; sc1 itself is the object
        \* the run returns
        ex == get_3D_model_from_scene(outdir, Obj(sc1), min_conf_thr,
                  as_pointcloud, mask_sky_, clean_depth, transparent_cams,
                  cam_size, Num(DefaultCamSize))
        calls == base.calls \o <<"inference", "global_aligner">>
                 \o (IF mode = "PointCloudOptimizer"
                     THEN <<"compute_global_alignment">> ELSE <<>>)
                 \o ex.calls
    IN  [base EXCEPT !.raised = ex.raised,
                     !.mode = mode,
                     !.init = sc1.init,
                     !.calls = calls,
                     !.written = ex.written,
                     !.ret = IF ex.raised = "none"
                             THEN [tag |-> "tuple", scene |-> Obj(sc1),
                                   outfile |-> ex.ret,
                                   imgs |-> diagnostic_images(sc1)]
                             ELSE None]

\* Lines 241-295: the two slider configurations for the uploaded files.
set_scenegraph_options(inputfiles, winsize, refid, scenegraph_type) ==
    LET num_files == IF inputfiles.tag = "None" THEN 1 ELSE Len(inputfiles.list)
        half == (num_files - 1) \div 2
        max_winsize == IF half > 1 THEN half ELSE 1
    IN  <<[value |-> max_winsize, minimum |-> 1, maximum |-> max_winsize,
           visible |-> (scenegraph_type = "swin")],
          [value |-> 0, minimum |-> 0, maximum |-> num_files - 1,
           visible |-> (scenegraph_type = "oneref")]>>

\* ----------------------------------------------------------- persistence
\* pose.tolist(): the nested list of a pose tensor.
tolist(pose) == pose.tensor

\* Lines 488-492: the name -> pose dictionary; a later entry of the same
\* name replaces an earlier one.
RECURSIVE M_ext_of(_, _)
M_ext_of(poses, file_names) ==
    IF poses = <<>> \/ file_names = <<>>
    THEN [x \in {} |-> <<>>]
    ELSE LET k == IF Len(poses) < Len(file_names) THEN Len(poses)
                  ELSE Len(file_names)
             rest == M_ext_of(SubSeq(poses, 1, k - 1), SubSeq(file_names, 1, k - 1))
         IN  (file_names[k] :> tolist(poses[k])) @@ rest

\* A variant of save_camera_poses that creates the file before it compares
\* the two lengths.
save_camera_poses_create_first(poses, file_names, path, files) ==
    LET file_path == <<"./estimation", path[1], path[2]>>
        made == (file_path :> [tag |-> "empty"]) @@ files
    IN  IF Len(file_names) # Len(poses)
        THEN [raised |-> "AssertionError", files |-> made]
        ELSE [raised |-> "none",
              files |-> (file_path :>
                            [tag |-> "json",
                             obj |-> ("extrinsics" :> M_ext_of(poses, file_names))])
                        @@ files]

\* save_camera_poses: `files` is the file system before the call, the result
\* holds the file system after it.
save_camera_poses(poses, file_names, path, files) ==
    IF Len(file_names) # Len(poses)
    THEN [raised |-> "AssertionError", files |-> files]
    ELSE LET file_path == <<"./estimation", path[1], path[2]>>
             made == IF file_path \in DOMAIN files THEN files
                     ELSE (file_path :> [tag |-> "empty"]) @@ files
         IN  [raised |-> "none",
              files |-> (file_path :>
                            [tag |-> "json",
                             obj |-> ("extrinsics" :> M_ext_of(poses, file_names))])
                        @@ made]

\* save_point_to_ply: a fourth column is dropped before writing.
save_point_to_ply(points, file_name, files) ==
    LET cols == IF points.dim = 4 THEN 3 ELSE points.dim
        file_path == <<"./estimation/", file_name[1], file_name[2]>>
    IN  (file_path :> [tag |-> "ply", rows |-> points.rows, cols |-> cols]) @@ files

\* ----------------------------------------------------------------- state
VARIABLES
    entry,       \* "ui": the demo server of main_demo; "cli": the __main__ block
    pc,          \* position in the __main__ block
    scene,       \* the retained scene handle (gradio.State / module variable)
    outmodel,    \* the Model3D output of the demo
    outgallery,  \* the Gallery output of the demo
    frame_name,  \* the file names the __main__ block collected
    fs,          \* the files written so far: path -> content
    op,          \* the last operation: its inputs, what it raised and returned
    repeat       \* the last export call had the arguments of the one before it

vars == <<entry, pc, scene, outmodel, outgallery, frame_name, fs, op, repeat>>

Thresholds == 1..MaxThr
SceneGraphTypes == {"complete", "swin", "oneref"}
OptionEvents == {"min_conf_thr.release", "cam_size.change", "as_pointcloud.change",
                 "mask_sky.change", "clean_depth.change", "transparent_cams.change"}
\* The first n files of the image directory / of an upload.
Files(n) == [i \in 1..n |-> i]

Init ==
    /\ entry \in {"ui", "cli"}
    /\ pc = "start"
    /\ scene = None
    /\ outmodel = None
    /\ outgallery = <<>>
    /\ frame_name = <<>>
    /\ fs = <<>>
    /\ op = [name |-> "none"]
    /\ repeat = FALSE

\* The file system after an operation that wrote `written` (or nothing).
Write(files, written) ==
    IF written.tag = "None" THEN files
    ELSE (written.path :> written.content) @@ files

\* ------------------------------------------------------------ demo server
\* The sliders as built at lines 334-349.
InitialSliders ==
    <<[value |-> 1, minimum |-> 1, maximum |-> 1, visible |-> FALSE],
      [value |-> 0, minimum |-> 0, maximum |-> 0, visible |-> FALSE]>>

\* scenegraph_type.change / inputfiles.change (lines 377-386): the two
\* sliders are rebuilt and sent to the page.
ScenegraphChange ==
    /\ entry = "ui"
    /\ \E inputfiles \in {None} \cup {[tag |-> "list", list |-> Files(n)] : n \in 1..MaxViews},
          scenegraph_type \in SceneGraphTypes :
          LET r == set_scenegraph_options(inputfiles, InitialSliders[1],
                                          InitialSliders[2], scenegraph_type)
          IN  op' = [name |-> "set_scenegraph_options", inputfiles |-> inputfiles,
                     scenegraph_type |-> scenegraph_type,
                     winsize |-> r[1], refid |-> r[2]]
    /\ UNCHANGED <<entry, pc, scene, outmodel, outgallery, frame_name, fs, repeat>>

\* The scene graphs a request can ask for: the type with its parameter (the
\* slider of the other type keeps its initial value).
GraphRequests ==
    {<<"complete", 1, 0>>}
    \cup {<<"swin", w, 0>> : w \in 0..MaxParam}
    \cup {<<"oneref", 1, r>> : r \in (-1)..MaxParam}

\* run_btn.click (lines 387-404): recon_fun with the values of the widgets;
\* the threshold slider is at its initial value.
RunClick ==
    /\ entry = "ui"
    /\ \E n \in 1..MaxViews,
          aspc \in BOOLEAN, ms \in BOOLEAN, cd \in BOOLEAN, tc \in BOOLEAN,
          g \in GraphRequests :
          LET res == get_reconstructed_scene("tmp", "model", "device", 512,
                         Files(n), "linear", 300, Num(SliderMinConfThr),
                         Bool(aspc), Bool(ms),
                         Bool(cd), Bool(tc), Num(DefaultCamSize), g[1], g[2], g[3])
              ok == res.raised = "none"
          IN  /\ op' = [name |-> "reconstruct", site |-> "ui",
                        args |-> [aspc |-> aspc, sg |-> g[1], w |-> g[2], r |-> g[3]],
                        run |-> res]
              /\ scene' = IF ok THEN res.ret.scene ELSE scene
              /\ outmodel' = IF ok THEN res.ret.outfile ELSE outmodel
              /\ outgallery' = IF ok THEN res.ret.imgs ELSE outgallery
              /\ fs' = Write(fs, res.written)
    /\ UNCHANGED <<entry, pc, frame_name, repeat>>

\* The six option callbacks (lines 405-482): model_from_scene_fun, that is
\* get_3D_model_from_scene with outdir bound, called with the seven widget
\* values by position.
OptionChange ==
    /\ entry = "ui"
    /\ \E ev \in OptionEvents, thr \in Thresholds,
          aspc \in BOOLEAN, ms \in BOOLEAN, cd \in BOOLEAN, tc \in BOOLEAN :
          LET res == get_3D_model_from_scene("tmp", scene, Num(thr), Bool(aspc),
                         Bool(ms), Bool(cd), Bool(tc), Num(DefaultCamSize),
                         Num(DefaultCamSize))
          IN  /\ op' = [name |-> "export", site |-> ev,
                        args |-> [thr |-> thr, aspc |-> aspc, ms |-> ms, cd |-> cd],
                        before |-> scene, res |-> res]
              /\ outmodel' = IF res.raised = "none" THEN res.ret ELSE outmodel
              /\ fs' = Write(fs, res.written)
    /\ UNCHANGED <<entry, pc, scene, outgallery, frame_name, repeat>>

\* ------------------------------------------------------- __main__ block
\* Lines 538-547: the reconstruction of the command line.
cli_reconstruct(files_path, num_view) ==
    LET images == load_images(SubSeq(files_path, 1,
                      IF num_view < Len(files_path) THEN num_view ELSE Len(files_path)))
        mp == make_pairs(images, <<"complete">>, TRUE)
        output == inference(mp.pairs)
        sc0 == global_aligner(output, "PointCloudOptimizer")
        sc1 == compute_global_alignment(sc0, "mst")
    IN  [raised |-> "none", n |-> Len(images), imgs |-> images,
         graph |-> <<"complete">>, pairs |-> mp.pairs,
         mode |-> sc0.mode, init |-> sc1.init,
         calls |-> <<"load_images", "make_pairs", "inference", "global_aligner",
                     "compute_global_alignment">>,
         scene |-> sc1]

\* Lines 527-535: collect at most num_view files of the image directory.
CliListFiles ==
    /\ entry = "cli" /\ pc = "start"
    /\ \E num_view \in 2..MaxViews, present \in 2..MaxViews :
          frame_name' = Files(IF num_view < present THEN num_view ELSE present)
    /\ pc' = "listed"
    /\ op' = [name |-> "listdir"]
    /\ UNCHANGED <<entry, scene, outmodel, outgallery, fs, repeat>>

CliReconstruct ==
    /\ entry = "cli" /\ pc = "listed"
    /\ LET res == cli_reconstruct(frame_name, Len(frame_name))
       IN  /\ scene' = Obj(res.scene)
           /\ op' = [name |-> "reconstruct", site |-> "cli", run |-> res]
    /\ pc' = "aligned"
    /\ UNCHANGED <<entry, outmodel, outgallery, frame_name, fs, repeat>>

\* One call of get_3D_model_from_scene whose arguments are bound to the
\* parameters of the same name, on the retained scene handle.
ExportStep(site, outdir, scene_name, thr, aspc, ms, cd, tc) ==
    LET res == get_3D_model_from_scene(outdir, scene_name, scene, Num(thr),
                   Bool(aspc), Bool(ms), Bool(cd), Bool(tc), Num(DefaultCamSize))
        args == [thr |-> thr, aspc |-> aspc, ms |-> ms, cd |-> cd]
    IN  /\ op' = [name |-> "export", site |-> site, args |-> args,
                  before |-> scene, res |-> res]
        /\ scene' = res.caller
        /\ fs' = Write(fs, res.written)
        /\ repeat' = (op.name = "export" /\ op.args = args)

\* Line 557.
CliExportMesh ==
    /\ entry = "cli" /\ pc = "aligned"
    /\ ExportStep("cli", "./estimation/", "box", DefaultMinConfThr, FALSE, FALSE, FALSE, FALSE)
    /\ pc' = "mesh"
    /\ UNCHANGED <<entry, outmodel, outgallery, frame_name>>

\* Line 558.
CliExportPointcloud ==
    /\ entry = "cli" /\ pc = "mesh"
    /\ ExportStep("cli", "./estimation/", "box", DefaultMinConfThr, TRUE, FALSE, FALSE, FALSE)
    /\ pc' = "cloud"
    /\ UNCHANGED <<entry, outmodel, outgallery, frame_name>>

\* scene.get_im_poses(): one pose tensor per view.
get_im_poses(sc) == [k \in DOMAIN sc.im_poses |-> [tensor |-> sc.im_poses[k]]]

\* One call of save_camera_poses.
SavePosesStep(poses, file_names) ==
    LET r == save_camera_poses(poses, file_names, <<"box", "poses.json">>, fs)
    IN  /\ op' = [name |-> "save_camera_poses", poses |-> poses,
                  names |-> file_names, raised |-> r.raised]
        /\ fs' = r.files

\* Line 559.
CliSavePoses ==
    /\ entry = "cli" /\ pc = "cloud"
    /\ SavePosesStep(get_im_poses(scene.obj), frame_name)
    /\ pc' = "poses"
    /\ UNCHANGED <<entry, scene, outmodel, outgallery, frame_name, repeat>>

\* Lines 560-564.
CliSavePly ==
    /\ entry = "cli" /\ pc = "poses"
    /\ fs' = save_point_to_ply([rows |-> Len(scene.obj.imgs) * NumPix, dim |-> 3],
                               <<"box", "point_cloud.ply">>, fs)
    /\ op' = [name |-> "save_point_to_ply"]
    /\ pc' = "done"
    /\ UNCHANGED <<entry, scene, outmodel, outgallery, frame_name, repeat>>

\* ------------------------------------------------- later calls by a caller
\* A caller exports from the handle it holds (None before the block has
\* run, the scene after it), with any options.
ExportCall ==
    /\ entry = "cli" /\ pc \in {"start", "done"}
    /\ \E thr \in Thresholds, aspc \in BOOLEAN, ms \in BOOLEAN, cd \in BOOLEAN, tc \in BOOLEAN :
          ExportStep("call", "./estimation/", "box", thr, aspc, ms, cd, tc)
    /\ UNCHANGED <<entry, pc, outmodel, outgallery, frame_name>>

\* A caller saves some of the poses under some of the collected names.
SavePosesCall ==
    /\ entry = "cli" /\ pc = "done"
    /\ \E k \in 0..Len(scene.obj.imgs), m \in 0..MaxViews :
          SavePosesStep(SubSeq(get_im_poses(scene.obj), 1, k), Files(m))
    /\ UNCHANGED <<entry, pc, scene, outmodel, outgallery, frame_name, repeat>>

Next ==
    \/ ScenegraphChange
    \/ RunClick
    \/ OptionChange
    \/ CliListFiles
    \/ CliReconstruct
    \/ CliExportMesh
    \/ CliExportPointcloud
    \/ CliSavePoses
    \/ CliSavePly
    \/ ExportCall
    \/ SavePosesCall

Spec == Init /\ [][Next]_vars

\* ------------------------------------------------------------ properties
Count(seq, x) == Cardinality({i \in DOMAIN seq : seq[i] = x})

\* The last operation was a reconstruction that got as far as a scene.
Reconstructed == op.name = "reconstruct" /\ "global_aligner" \in Range(op.run.calls)

\* C1: in every reconstruction run, of the demo and of the command line
\* alike, a resolved view count of 2 selects pair-viewer mode and never runs
\* compute_global_alignment; a count above 2 selects PointCloudOptimizer and
\* runs compute_global_alignment exactly once with init='mst'.
C1_ModeFollowsViewCount ==
    Reconstructed =>
        LET resolved == Len(op.run.imgs)
            aligns == Count(op.run.calls, "compute_global_alignment")
        IN  /\ resolved = 2 => op.run.mode = "PairViewer" /\ aligns = 0
            /\ resolved > 2 => /\ op.run.mode = "PointCloudOptimizer"
                               /\ aligns = 1
                               /\ op.run.init = "mst"

\* C2: an export call made while the retained scene handle is None returns
\* None, writes no file and raises nothing, whichever way it is invoked.
C2_ExportWithoutSceneIsNoOp ==
    (op.name = "export" /\ op.before.tag = "None") =>
        /\ op.res.raised = "none"
        /\ op.res.ret.tag = "None"
        /\ op.res.written.tag = "None"

\* C3: after every export call on a present scene the retained scene holds
\* min_conf_thr = conf_trf(threshold of the call) and is otherwise unchanged,
\* for every combination of clean_depth and mask_sky.
C3_ThresholdStoredOnRetainedScene ==
    (op.name = "export" /\ op.before.tag = "scene") =>
        /\ scene.tag = "scene"
        /\ scene.obj.min_conf_thr = conf_trf(op.args.thr)
        /\ [scene.obj EXCEPT !.min_conf_thr = 0]
               = [op.before.obj EXCEPT !.min_conf_thr = 0]

\* C4: the masks (and the masked-point count) of an export call are those
\* the same call gives on the scene as reconstructed, whatever exports came
\* before it; two consecutive calls with the same arguments give the same
\* masks and the same count.
C4_ExportMaskingIdempotent ==
    [][(op'.name = "export" /\ scene.tag = "scene") =>
          LET a == op'.args
              fresh == Obj(cli_reconstruct(frame_name, Len(frame_name)).scene)
              ref == get_3D_model_from_scene("./estimation/", "box", fresh,
                         Num(a.thr), Bool(a.aspc), Bool(a.ms), Bool(a.cd),
                         Bool(FALSE), Num(DefaultCamSize))
          IN  /\ op'.res.msk = ref.msk
              /\ op'.res.npts = ref.npts
              /\ (op.name = "export" /\ op.args = a) =>
                     /\ op'.res.msk = op.res.msk
                     /\ op'.res.npts = op.res.npts]_vars

\* C4 witness: the same export call was made twice in a row with a
\* post-processing flag set, on a scene whose stored threshold was left by an
\* earlier export with another threshold, and it kept some points.
C4_Witness ==
    /\ op.name = "export" /\ repeat
    /\ op.before.tag = "scene"
    /\ op.before.obj.min_conf_thr # conf_trf(op.args.thr)
    /\ op.res.npts > 0

\* C5: a reconstruction requested with a window size outside
\* 1..floor((N-1)/2) or a reference index outside 0..N-1, N the number of
\* supplied views, fails with InvalidTopologyParameter before any inference
\* or alignment call.
C5_BadTopologyRejectedFirst ==
    (op.name = "reconstruct" /\ op.site = "ui") =>
        LET N == op.run.n
            bad == \/ op.args.sg = "swin"
                      /\ ~(1 <= op.args.w /\ op.args.w <= (N - 1) \div 2)
                   \/ op.args.sg = "oneref"
                      /\ ~(0 <= op.args.r /\ op.args.r < N)
        IN  bad => /\ op.run.raised = "InvalidTopologyParameter"
                   /\ "inference" \notin Range(op.run.calls)
                   /\ "global_aligner" \notin Range(op.run.calls)
                   /\ "compute_global_alignment" \notin Range(op.run.calls)

\* The pairs of the last run, as index pairs.
PairIds == {<<e[1].idx, e[2].idx>> : e \in op.run.pairs}

\* What C6 says of a run whose pairs were built, for a view count V.
PairsWellFormed(V) ==
    /\ \A e \in PairIds : e[1] # e[2]
    /\ \A e \in PairIds : <<e[2], e[1]>> \in PairIds
    /\ Cardinality(PairIds) = Cardinality(op.run.pairs)
    /\ op.run.graph[1] = "complete" => Cardinality(op.run.pairs) = V * (V - 1)
    /\ op.run.graph[1] = "oneref" => Cardinality(op.run.pairs) = 2 * (V - 1)
    /\ op.run.n = 1 =>
          /\ [k \in DOMAIN op.run.imgs |-> op.run.imgs[k].idx] = <<0, 1>>
          /\ Cardinality({{e[1], e[2]} : e \in PairIds}) = 1

PosesPath == <<"./estimation", "box", "poses.json">>

\* C7: save_camera_poses with len(poses) # len(names) fails before touching
\* the file system; with equal lengths it writes one JSON object whose only
\* top-level key is 'extrinsics', mapping each name to the pose at the same
\* position.
C7_SavePoses ==
    [][op'.name = "save_camera_poses" =>
          IF Len(op'.poses) # Len(op'.names)
          THEN op'.raised = "AssertionError" /\ fs' = fs
          ELSE /\ op'.raised = "none"
               /\ PosesPath \in DOMAIN fs'
               /\ fs'[PosesPath].tag = "json"
               /\ DOMAIN fs'[PosesPath].obj = {"extrinsics"}
               /\ DOMAIN fs'[PosesPath].obj["extrinsics"] = Range(op'.names)
               /\ \A i \in 1..Len(op'.names) :
                      fs'[PosesPath].obj["extrinsics"][op'.names[i]]
                          = op'.poses[i].tensor
               /\ \A q \in DOMAIN fs : q # PosesPath => q \in DOMAIN fs' /\ fs'[q] = fs[q]]_vars

\* C7 witness: save_camera_poses was called with 3 poses and 2 names and
\* failed.
C7_Witness ==
    /\ op.name = "save_camera_poses"
    /\ Len(op.poses) = 3 /\ Len(op.names) = 2
    /\ op.raised = "AssertionError"

\* C8: an export call never invokes inference, the aligner or
\* compute_global_alignment, and leaves the number of optimizer runs of the
\* retained scene as it was, which is at most one.
C8_ExportNeverRealigns ==
    [][op'.name = "export" =>
          /\ "inference" \notin Range(op'.res.calls)
          /\ "global_aligner" \notin Range(op'.res.calls)
          /\ "compute_global_alignment" \notin Range(op'.res.calls)
          /\ scene.tag = "scene" =>
                /\ scene'.tag = "scene"
                /\ scene'.obj.alignRuns = scene.obj.alignRuns
                /\ scene'.obj.alignRuns <= 1]_vars

\* C8 witness: after the one reconstruction, a caller's export with both
\* post-processing flags followed another export on the same scene.
C8_Witness ==
    /\ op.name = "export" /\ op.site = "call"
    /\ op.before.tag = "scene" /\ op.before.obj.min_conf_thr # 3
    /\ op.args.cd /\ op.args.ms
    /\ scene.obj.alignRuns = 1

\* The largest value of a sequence of sequences.
GlobalMax(maps) ==
    CHOOSE m \in UNION {Range(maps[k]) : k \in DOMAIN maps} :
        \A k \in DOMAIN maps : \A p \in DOMAIN maps[k] : m >= maps[k][p]

\* C9: for a scene of N views the run returns 3*N images: position 3i the
\* image of view i, 3i+1 its depth map over the maximum depth of all views,
\* 3i+2 its confidence map over the maximum confidence of all views.
C9_DiagnosticImages ==
    (Reconstructed /\ op.site = "ui") =>
        /\ op.run.ret.tag = "tuple"
        /\ LET sc == op.run.ret.scene.obj
               out == op.run.ret.imgs
               N == Len(sc.imgs)
           IN  /\ Len(out) = 3 * N
               /\ \A i \in 0..(N - 1) :
                     /\ out[3 * i + 1] = [kind |-> "rgb", data |-> sc.imgs[i + 1]]
                     /\ out[3 * i + 2].kind = "depth"
                     /\ out[3 * i + 3].kind = "conf"
                     /\ \A p \in 1..NumPix :
                           /\ out[3 * i + 2].data[p]
                                  = <<sc.depth[i + 1][p], GlobalMax(sc.depth)>>
                           /\ out[3 * i + 3].data[p]
                                  = <<"jet", sc.im_conf[i + 1][p], GlobalMax(sc.im_conf)>>

\* C10: at every call site the scene handle is the value bound to export's
\* scene parameter and every option reaches the parameter of its meaning, so
\* a reconstruction that built its scene returns it with the path of one
\* written file, {name}_pointcloud.glb or {name}_mesh.glb by as_pointcloud.
C10_ExportBoundByMeaning ==
    /\ op.name = "export" => op.res.caller.tag = op.before.tag
    /\ (Reconstructed /\ op.site = "ui") =>
          /\ op.run.raised = "none"
          /\ op.run.ret.tag = "tuple"
          /\ op.run.ret.scene.tag = "scene"
          /\ op.run.ret.outfile.tag = "path"
          /\ op.run.ret.outfile.path[3]
                 = (IF op.args.aspc THEN "pointcloud" ELSE "mesh")
          /\ op.run.ret.outfile.path \in DOMAIN fs

====
